---- MODULE Spec2Model ----
(***************************************************************************)
(* A model of objects/broker/robinhood/VerticalOptionOrder.js: the         *)
(* two-path constructor (new order parameters / existing server record),   *)
(* submit(), the static getOrders() and the accessors.                     *)
(*                                                                         *)
(* JavaScript values are records [t, c, s, n]: t is the typeof result, c   *)
(* the class of an object ("" for primitives), s the characters of a       *)
(* string (a tuple of one-character strings) and n a number, in            *)
(* hundredths (1.50 is 150).                                               *)
(***************************************************************************)
EXTENDS Integers, Sequences, FiniteSets, TLC

VARIABLES
    orders,     \* every VerticalOptionOrder instance that is kept, in order of construction
    args,       \* for each instance of orders, the (user, object) its constructor was given
    calls,      \* every submit() call: its promise, and the request it sent
    wire,       \* every HTTP request handed to the request library, in order
    uuids,      \* how many identifiers uuidv4() has produced
    attempt,    \* a constructor invocation whose outcome is looked at: arguments, outcome
    listing     \* the latest getOrders() call: its promise

vars == <<orders, args, calls, wire, uuids, attempt, listing>>

----------------------------------------------------------------------------
(* Bounds of the model *)

MaxOrders == 1      \* instances the caller constructs and keeps
MaxCalls == 3       \* submit() calls
MaxEntries == 2     \* entries of a listing response

----------------------------------------------------------------------------
(* JavaScript values *)

Undefined == [t |-> "undefined", c |-> "", s |-> <<>>, n |-> 0]
Str(cs) == [t |-> "string", c |-> "", s |-> cs, n |-> 0]
Num(k) == [t |-> "number", c |-> "", s |-> <<>>, n |-> k]
NaN == [t |-> "number", c |-> "", s |-> <<"N", "a", "N">>, n |-> 0]
PlainObject == [t |-> "object", c |-> "Object", s |-> <<>>, n |-> 0]
\* an OptionInstrument instance; s holds its instrumentURL
Instrument(url) == [t |-> "object", c |-> "OptionInstrument", s |-> url, n |-> 0]

TypeOf(v) == v.t

BUY == <<"b", "u", "y">>
SELL == <<"s", "e", "l", "l">>
HOLD == <<"h", "o", "l", "d">>
MARKET == <<"m", "a", "r", "k", "e", "t">>
LIMIT == <<"l", "i", "m", "i", "t">>
STOP == <<"s", "t", "o", "p">>
GTC == <<"g", "t", "c">>
GFD == <<"g", "f", "d">>
IOC == <<"i", "o", "c">>
OPG == <<"o", "p", "g">>
DEBIT == <<"d", "e", "b", "i", "t">>
CREDIT == <<"c", "r", "e", "d", "i", "t">>
OPEN == <<"o", "p", "e", "n">>
CLOSE == <<"c", "l", "o", "s", "e">>
IMMEDIATE == <<"i", "m", "m", "e", "d", "i", "a", "t", "e">>
FILLED == <<"f", "i", "l", "l", "e", "d">>

Upper == <<"A", "B", "C", "D", "E", "F", "G", "H", "I", "J", "K", "L", "M",
           "N", "O", "P", "Q", "R", "S", "T", "U", "V", "W", "X", "Y", "Z">>
Lower == <<"a", "b", "c", "d", "e", "f", "g", "h", "i", "j", "k", "l", "m",
           "n", "o", "p", "q", "r", "s", "t", "u", "v", "w", "x", "y", "z">>
Digits == <<"0", "1", "2", "3", "4", "5", "6", "7", "8", "9">>

\* String.prototype.toLowerCase, character by character
LowerChar(ch) ==
    IF \E i \in 1..26 : Upper[i] = ch
    THEN Lower[CHOOSE i \in 1..26 : Upper[i] = ch]
    ELSE ch
toLowerCase(cs) == [i \in 1..Len(cs) |-> LowerChar(cs[i])]

IsDigit(ch) == \E i \in 1..10 : Digits[i] = ch
DigitValue(ch) == (CHOOSE i \in 1..10 : Digits[i] = ch) - 1

RECURSIVE DigitsValue(_)
DigitsValue(cs) ==
    IF cs = <<>> THEN 0
    ELSE 10 * DigitsValue(SubSeq(cs, 1, Len(cs) - 1)) + DigitValue(cs[Len(cs)])

AllDigits(cs) == \A i \in 1..Len(cs) : IsDigit(cs[i])
DotAt(cs) == IF \E i \in 1..Len(cs) : cs[i] = "."
             THEN CHOOSE i \in 1..Len(cs) : cs[i] = "." /\ \A j \in 1..(i - 1) : cs[j] # "."
             ELSE 0

\* Number(v) for the values of the model: numbers are themselves, a decimal
\* literal of at most two fraction digits is its value (in hundredths), and
\* everything else (undefined, an object, any other string) is NaN.
ToNumber(v) ==
    IF v.t = "number" THEN v
    ELSE IF v.t # "string" \/ v.s = <<>> THEN NaN
    ELSE LET d == DotAt(v.s)
             whole == IF d = 0 THEN v.s ELSE SubSeq(v.s, 1, d - 1)
             frac == IF d = 0 THEN <<>> ELSE SubSeq(v.s, d + 1, Len(v.s))
         IN  IF ~AllDigits(whole) \/ ~AllDigits(frac) \/ Len(frac) > 2
                \/ (whole = <<>> /\ frac = <<>>)
             THEN NaN
             ELSE Num(100 * DigitsValue(whole)
                      + (IF Len(frac) = 1 THEN 10 ELSE 1) * DigitsValue(frac))

----------------------------------------------------------------------------
(* Objects handed to the constructor: a value, or Undefined, for every key *)

Whitelist ==
    {"opening_strategy", "updated_at", "ref_id", "time_in_force",
     "response_category", "chain_symbol", "id", "chain_id", "state", "trigger",
     "legs", "type", "direction", "premium", "price", "pending_quantity",
     "processed_quantity", "closing_strategy", "processed_premium",
     "created_at", "cancel_url", "canceled_quantity", "quantity"}

Keys == Whitelist \cup {"side", "timeInForce", "longLeg", "shortLeg"}

EmptyObject == [k \in Keys |-> Undefined]

\* The authenticated session: isUser says whether it has an isAuthenticated function
User(isUser, authenticated) ==
    [isUser |-> isUser, authenticated |-> authenticated,
     account |-> <<"5", "Q", "R">>, token |-> <<"t", "o", "k">>]

url == <<"h", "t", "t", "p", "s", ":", "/", "/", "a", "p", "i", ".",
         "r", "o", "b", "i", "n", "h", "o", "o", "d", ".", "c", "o", "m">>

----------------------------------------------------------------------------
(* The constructor *)

Err(names, message) == [names |-> names, message |-> message]
NoError == Err("", "")

\* _validate(): the first assertion that fails, NoError when none does
_validate(user, object) ==
    IF ~(user.isUser /\ user.authenticated)
    THEN Err("user", "Parameter 'user' must be an instance of the User class and authenticated with Robinhood")
    ELSE IF TypeOf(object["side"]) # "string"
    THEN Err("side", "Object property 'side' must be a string")
    ELSE IF ~(object["side"] = Str(BUY) \/ object["side"] = Str(SELL))
    THEN Err("side", "Object property 'side' must be either 'buy' or 'sell'")
    ELSE IF TypeOf(object["type"]) # "string"
    THEN Err("type", "Object property 'type' must be a string")
    ELSE IF ~(object["type"] = Str(MARKET) \/ object["type"] = Str(LIMIT))
    THEN Err("type", "Object property 'type' must be either 'market' or 'limit'")
    ELSE IF object["side"] = Str(BUY) /\ object["type"] = Str(MARKET)
    THEN Err("type", "Robinhood does not allow buy orders to be of type 'market'")
    ELSE IF TypeOf(object["price"]) # "number"
    THEN Err("price", "Object property 'price' must be a number")
    ELSE IF TypeOf(object["timeInForce"]) # "string"
    THEN Err("timeInForce", "Object property 'timeInForce' must be a string")
    ELSE IF toLowerCase(object["timeInForce"].s) \notin {GFD, GTC, IOC, OPG}
    THEN Err("timeInForce", "Object property 'timeInForce' must be either GFD, GTC, IOC, or OPG")
    ELSE IF object["longLeg"].c # "OptionInstrument"
    THEN Err("optionInstrument", "Object property 'optionInstrument' must be an instance of the OptionInstrument class")
    ELSE IF object["shortLeg"].c # "OptionInstrument"
    THEN Err("optionInstrument", "Object property 'optionInstrument' must be an instance of the OptionInstrument class")
    ELSE IF TypeOf(object["quantity"]) # "number"
    THEN Err("quantity", "Object property 'quantity' must be a number")
    ELSE NoError

\* uuidv4(): the k-th identifier it produces; no two calls return the same one
uuidv4(k) == Str(<<"u", "u", "i", "d", "-", Digits[k + 1]>>)

Leg(effect, side, instrument) ==
    [position_effect |-> Str(effect), side |-> Str(side), ratio_quantity |-> Num(100),
     option |-> Str(instrument.s)]

\* this.form of a new order
Form(user, object, fresh) ==
    [account |-> Str(url \o <<"/", "a", "c", "c", "o", "u", "n", "t", "s", "/">>
                     \o user.account \o <<"/">>),
     direction |-> IF object["side"] = Str(BUY) THEN Str(DEBIT) ELSE Str(CREDIT),
     legs |-> <<Leg(IF object["side"] = Str(BUY) THEN CLOSE ELSE OPEN, BUY, object["longLeg"]),
                Leg(IF object["side"] = Str(BUY) THEN CLOSE ELSE OPEN, SELL, object["shortLeg"])>>,
     price |-> object["price"],
     time_in_force |-> object["timeInForce"],
     trigger |-> Str(IMMEDIATE),
     type |-> object["type"],
     quantity |-> object["quantity"],
     override_day_trade_checks |-> FALSE,
     override_dtbp_checks |-> FALSE,
     ref_id |-> IF object["ref_id"] # Undefined THEN object["ref_id"] ELSE fresh]

NoProps == [k \in Whitelist |-> Undefined]

\* whether the constructor takes the new-order branch
IsNewOrderByStateOnly(object) == object["state"] = Undefined
IsNewOrder(object) == object["state"] = Undefined /\ object["cancel_url"] = Undefined

\* whether the constructor calls uuidv4()
DrawsUuid(user, object) ==
    IsNewOrder(object) /\ _validate(user, object) = NoError /\ object["ref_id"] = Undefined

\* new VerticalOptionOrder(user, object): either it throws the error of
\* _validate, or it yields the instance (instance is <<>> when it throws)
Constructor(user, object, fresh) ==
    IF IsNewOrder(object)
    THEN IF _validate(user, object) # NoError
         THEN [threw |-> TRUE, error |-> _validate(user, object), instance |-> <<>>]
         ELSE [threw |-> FALSE, error |-> NoError,
               instance |-> <<[user |-> user, executed |-> FALSE,
                               form |-> <<Form(user, object, fresh)>>,
                               props |-> NoProps]>>]
    ELSE [threw |-> FALSE, error |-> NoError,
          instance |-> <<[user |-> user, executed |-> TRUE, form |-> <<>>,
                          props |-> [k \in Whitelist |-> object[k]]]>>]

----------------------------------------------------------------------------
(* Accessors *)

getDirection(o) == o.props["direction"]
getTimeInForce(o) == o.props["time_in_force"]
getReferenceID(o) == o.props["ref_id"]
getPrice(o) == ToNumber(o.props["price"])
getType(o) == o.props["type"]
getQuantity(o) == ToNumber(o.props["quantity"])
isExecuted(o) == o.executed
isCredit(o) == o.props["direction"] = Str(CREDIT)
isDebit(o) == o.props["direction"] = Str(DEBIT)

----------------------------------------------------------------------------
(* The transport and the response handler *)

AlreadyExecutedMessage == "This order has already been executed!"
Errors == {"ETIMEDOUT", "Insufficient buying power"}

\* Robinhood.handleResponse: for each transport outcome it calls exactly one of
\* its two continuations, the success one with the parsed body or the failure
\* one with the error. These are the calls it can make, for the given bodies.
handleResponse(bodies, none) ==
    {[kind |-> "success", error |-> "", body |-> b] : b \in bodies}
    \cup {[kind |-> "failure", error |-> e, body |-> none] : e \in Errors}

NoReport == [kind |-> "none", error |-> "", body |-> EmptyObject]

Request(method, path, user, json) ==
    [method |-> method, uri |-> url \o path,
     authorization |-> <<"B", "e", "a", "r", "e", "r", " ">> \o user.token,
     json |-> json]

OrdersPath == <<"/", "o", "p", "t", "i", "o", "n", "s", "/", "o", "r", "d", "e", "r", "s", "/">>

----------------------------------------------------------------------------
(* Inputs *)

TheUser == User(TRUE, TRUE)
Users == {User(TRUE, TRUE), User(TRUE, FALSE), User(FALSE, FALSE)}

LongLeg == Instrument(<<"o", "1">>)
ShortLeg == Instrument(<<"o", "2">>)
ABC == <<"a", "b", "c">>
CancelUrl == url \o OrdersPath \o <<"7", "/", "c", "a", "n", "c", "e", "l", "/">>

Params(side, type, price, tif, long, short, quantity, ref, state, cancel) ==
    [k \in Keys |->
        CASE k = "side" -> side
          [] k = "type" -> type
          [] k = "price" -> price
          [] k = "timeInForce" -> tif
          [] k = "longLeg" -> long
          [] k = "shortLeg" -> short
          [] k = "quantity" -> quantity
          [] k = "ref_id" -> ref
          [] k = "state" -> state
          [] k = "cancel_url" -> cancel
          [] OTHER -> Undefined]

\* what a caller may hand to the constructor as new order parameters
BroadObjects ==
    {Params(side, type, price, tif, long, short, quantity, ref, state, cancel) :
        side \in {Str(BUY), Str(SELL), Str(HOLD), Undefined},
        type \in {Str(MARKET), Str(LIMIT), Str(STOP), Num(100)},
        price \in {Num(150), Str(<<"1", ".", "5", "0">>)},
        tif \in {Str(GTC), Str(<<"G", "f", "D">>), Str(<<"d", "a", "y">>), Undefined},
        long \in {LongLeg, PlainObject},
        short \in {ShortLeg, Undefined},
        quantity \in {Num(300), Str(<<"3">>)},
        ref \in {Undefined, Str(ABC)},
        state \in {Undefined, Str(FILLED)},
        cancel \in {Undefined, Str(CancelUrl)}}

Record(state, cancel, price, quantity, direction, tif, ref, created) ==
    [k \in Keys |->
        CASE k = "state" -> state
          [] k = "cancel_url" -> cancel
          [] k = "price" -> price
          [] k = "quantity" -> quantity
          [] k = "direction" -> direction
          [] k = "time_in_force" -> tif
          [] k = "ref_id" -> ref
          [] k = "created_at" -> created
          [] OTHER -> Undefined]

\* the response of the specification's example: neither state nor cancel_url
ExampleBody ==
    Record(Undefined, Undefined, Str(<<"1", ".", "5", "0">>), Str(<<"3">>),
           Str(CREDIT), Str(GTC), Str(ABC), Undefined)
\* the same order as the provider reports it, with its state and cancel_url
FilledBody == [ExampleBody EXCEPT !["state"] = Str(FILLED), !["cancel_url"] = Str(CancelUrl)]
SubmitBodies == {ExampleBody, FilledBody}

\* what the caller constructs and keeps: new orders and one server record
KeptObjects ==
    {Params(Str(SELL), Str(LIMIT), Num(150), Str(GTC), LongLeg, ShortLeg, Num(300),
            Undefined, Undefined, Undefined),
     Params(Str(BUY), Str(LIMIT), Num(150), Str(GFD), LongLeg, ShortLeg, Num(300),
            Str(ABC), Undefined, Undefined),
     FilledBody}

----------------------------------------------------------------------------
(* The state after start: nothing constructed, nothing sent *)

NoOutcome == [threw |-> FALSE, error |-> NoError, instance |-> <<>>]
NoAttempt == [made |-> FALSE, user |-> TheUser, object |-> EmptyObject, outcome |-> NoOutcome]
NoListing == [state |-> "idle", body |-> <<>>, result |-> <<>>, reason |-> ""]

Init ==
    /\ orders = <<>>
    /\ args = <<>>
    /\ calls = <<>>
    /\ wire = <<>>
    /\ uuids = 0
    /\ attempt = NoAttempt
    /\ listing = NoListing

CallerBuilt == Cardinality({i \in DOMAIN args : args[i].by = "caller"})

\* the caller constructs an order and, unless the constructor throws, keeps it
NewOrder(user, object) ==
    /\ CallerBuilt < MaxOrders
    /\ LET out == Constructor(user, object, uuidv4(uuids))
       IN  /\ uuids' = IF DrawsUuid(user, object) THEN uuids + 1 ELSE uuids
           /\ IF out.threw
              THEN UNCHANGED <<orders, args>>
              ELSE /\ orders' = Append(orders, out.instance[1])
                   /\ args' = Append(args, [user |-> user, object |-> object, by |-> "caller"])
    /\ UNCHANGED <<calls, wire, attempt, listing>>

\* the constructor applied to the parameters drawn at the start, its outcome
\* looked at and the instance dropped
TryNew ==
    /\ ~attempt.made
    /\ attempt' = [attempt EXCEPT !.made = TRUE,
                       !.outcome = Constructor(attempt.user, attempt.object, uuidv4(uuids))]
    /\ uuids' = IF DrawsUuid(attempt.user, attempt.object) THEN uuids + 1 ELSE uuids
    /\ UNCHANGED <<orders, args, calls, wire, listing>>

----------------------------------------------------------------------------
(* submit() *)

Call(i, state, reason, json, overlapped) ==
    [order |-> i, state |-> state, result |-> 0, reason |-> reason,
     reported |-> NoReport, json |-> json, overlapped |-> overlapped]

Outstanding(i) == {c \in DOMAIN calls : calls[c].order = i /\ calls[c].state = "inflight"}
Succeeded(i) == {c \in DOMAIN calls : calls[c].order = i /\ calls[c].state = "resolved"}

\* the guard of submit(): the executed flag
NeverExecuted(o) == FALSE
AlreadyExecuted(o) == o.executed

\* submit() on instance i, up to the point where the request is handed to
\* the request library (or the promise is rejected at once)
Submit(i) ==
    /\ Len(calls) < MaxCalls
    /\ IF AlreadyExecuted(orders[i])
       THEN /\ calls' = Append(calls, Call(i, "rejected", AlreadyExecutedMessage, <<>>, FALSE))
            /\ wire' = wire
       ELSE /\ calls' = Append(calls, Call(i, "inflight", "", orders[i].form,
                                           Outstanding(i) # {}))
            /\ wire' = Append(wire, Request("POST", OrdersPath, orders[i].user, orders[i].form))
    /\ UNCHANGED <<orders, args, uuids, attempt, listing>>

\* what the success continuation does to the submitted instance itself
MarkedAndStripped(o) == [o EXCEPT !.executed = TRUE, !.form = <<>>]
Untouched(o) == o
Marked(o) == [o EXCEPT !.executed = TRUE]

\* the response of call c arrives and the handler reports success with res:
\* the instance is marked, then the constructor runs on res; when it throws,
\* the exception leaves the callback and the promise is never settled
SubmitSuccess(c, res) ==
    /\ calls[c].state = "inflight"
    /\ LET i == calls[c].order
           out == Constructor(orders[i].user, res, uuidv4(uuids))
           marked == [orders EXCEPT ![i] = Marked(orders[i])]
           report == [kind |-> "success", error |-> "", body |-> res]
       IN  /\ uuids' = IF DrawsUuid(orders[i].user, res) THEN uuids + 1 ELSE uuids
           /\ IF out.threw
              THEN /\ orders' = marked
                   /\ args' = args
                   /\ calls' = [calls EXCEPT ![c].state = "threw", ![c].reported = report,
                                             ![c].reason = out.error.message]
              ELSE /\ orders' = Append(marked, out.instance[1])
                   /\ args' = Append(args, [user |-> orders[i].user, object |-> res,
                                            by |-> "submit"])
                   /\ calls' = [calls EXCEPT ![c].state = "resolved", ![c].reported = report,
                                             ![c].result = Len(orders) + 1]
    /\ UNCHANGED <<wire, attempt, listing>>

\* the response of call c arrives and the handler reports the failure err:
\* reject is the failure continuation itself
SubmitFailureRetries(c, err) ==
    /\ calls[c].state = "inflight"
    /\ calls' = [calls EXCEPT ![c].reported = [kind |-> "failure", error |-> err,
                                               body |-> EmptyObject]]
    /\ wire' = Append(wire, Request("POST", OrdersPath, orders[calls[c].order].user,
                                    calls[c].json))
    /\ UNCHANGED <<orders, args, uuids, attempt, listing>>
SubmitFailure(c, err) ==
    /\ calls[c].state = "inflight"
    /\ calls' = [calls EXCEPT ![c].state = "rejected", ![c].reason = err,
                              ![c].reported = [kind |-> "failure", error |-> err,
                                               body |-> EmptyObject]]
    /\ UNCHANGED <<orders, args, wire, uuids, attempt, listing>>

Next ==
    \/ \E object \in KeptObjects : NewOrder(TheUser, object)
    \/ \E i \in DOMAIN orders : Submit(i)
    \/ \E c \in DOMAIN calls : \E r \in handleResponse(SubmitBodies, EmptyObject) :
          r.kind = "success" /\ SubmitSuccess(c, r.body)
    \/ \E c \in DOMAIN calls : \E r \in handleResponse(SubmitBodies, EmptyObject) :
          r.kind = "failure" /\ SubmitFailure(c, r.error)

Spec == Init /\ [][Next]_vars

\* every parameter set a caller may hand to the constructor, not yet constructed
InitNew ==
    /\ orders = <<>>
    /\ args = <<>>
    /\ calls = <<>>
    /\ wire = <<>>
    /\ uuids = 0
    /\ attempt \in {[made |-> FALSE, user |-> user, object |-> object, outcome |-> NoOutcome] :
                        user \in Users, object \in BroadObjects}
    /\ listing = NoListing

NextNew == TryNew

SpecNew == InitNew /\ [][NextNew]_vars

----------------------------------------------------------------------------
(* getOrders() *)

\* created_at values: ISO 8601 timestamps within one minute. The provider
\* writes the fraction of the second only when it is not zero.
TsPrefix == <<"2", "0", "1", "8", "-", "0", "6", "-", "0", "1", "T",
              "1", "2", ":", "0", "0", ":", "0">>
Timestamp(suffix) == Str(TsPrefix \o suffix)
Timestamps ==
    {Timestamp(<<"1", "Z">>), Timestamp(<<"1", ".", "5", "Z">>), Timestamp(<<"2", "Z">>)}

\* UTF-16 code units of the characters of a timestamp
Chars == <<"-", ".", "0", "1", "2", "3", "4", "5", "6", "7", "8", "9", ":", "T", "Z">>
Codes == <<45, 46, 48, 49, 50, 51, 52, 53, 54, 55, 56, 57, 58, 84, 90>>
CharCode(ch) == Codes[CHOOSE i \in 1..Len(Chars) : Chars[i] = ch]

\* a < b on JavaScript strings: by code unit, a proper prefix first
RECURSIVE StrLess(_, _)
StrLess(a, b) ==
    IF b = <<>> THEN FALSE
    ELSE IF a = <<>> THEN TRUE
    ELSE IF CharCode(a[1]) # CharCode(b[1]) THEN CharCode(a[1]) < CharCode(b[1])
    ELSE StrLess(Tail(a), Tail(b))

\* lodash compareAscending on strings and undefined: v sorts after w
SortsAfter(v, w) ==
    IF v = w THEN FALSE
    ELSE IF v = Undefined THEN TRUE
    ELSE IF w = Undefined THEN FALSE
    ELSE StrLess(w.s, v.s)

\* _.sortBy(array, key): a stable ascending sort on the key's value
RECURSIVE Insert(_, _, _)
Insert(sorted, o, key) ==
    IF sorted = <<>> THEN <<o>>
    ELSE IF SortsAfter(sorted[Len(sorted)].props[key], o.props[key])
    THEN Append(Insert(SubSeq(sorted, 1, Len(sorted) - 1), o, key), sorted[Len(sorted)])
    ELSE Append(sorted, o)

RECURSIVE sortBy(_, _)
sortBy(array, key) ==
    IF array = <<>> THEN <<>>
    ELSE Insert(sortBy(SubSeq(array, 1, Len(array) - 1), key), array[Len(array)], key)

\* new Date(created_at).getTime(), in milliseconds after 2018-06-01T12:00:00Z
DateValue(v) ==
    LET n == Len(TsPrefix)
        rest == SubSeq(v.s, n + 1, Len(v.s))
    IN  IF v.t = "string" /\ Len(v.s) > n /\ SubSeq(v.s, 1, n) = TsPrefix
           /\ Len(rest) = 2 /\ IsDigit(rest[1]) /\ rest[2] = "Z"
        THEN [valid |-> TRUE, ms |-> 1000 * DigitValue(rest[1])]
        ELSE IF v.t = "string" /\ Len(v.s) > n /\ SubSeq(v.s, 1, n) = TsPrefix
                /\ Len(rest) = 4 /\ IsDigit(rest[1]) /\ rest[2] = "." /\ IsDigit(rest[3])
                /\ rest[4] = "Z"
        THEN [valid |-> TRUE, ms |-> 1000 * DigitValue(rest[1]) + 100 * DigitValue(rest[3])]
        ELSE [valid |-> FALSE, ms |-> 0]

getDateCreated(o) == DateValue(o.props["created_at"])

\* the entries of a listing response
Entries ==
    {Record(state, cancel, Str(<<"1", ".", "5", "0">>), Str(<<"3">>), Str(CREDIT),
            Str(GTC), Str(ABC), created) :
        state \in {Undefined, Str(FILLED)},
        cancel \in {Undefined, Str(CancelUrl)},
        created \in Timestamps}

RECURSIVE Arrays(_)
Arrays(n) ==
    IF n = 0 THEN {<<>>}
    ELSE Arrays(n - 1) \cup {Append(a, e) : a \in {b \in Arrays(n - 1) : Len(b) = n - 1},
                                              e \in Entries}

\* the forEach of the success continuation: the entries with a state, wrapped
RECURSIVE Wrapped(_, _)
Wrapped(user, res) ==
    IF res = <<>> THEN <<>>
    ELSE LET o == res[Len(res)]
             before == Wrapped(user, SubSeq(res, 1, Len(res) - 1))
         IN  IF o["state"] # Undefined
             THEN Append(before, Constructor(user, o, Undefined).instance[1])
             ELSE before

\* getOrders(user) up to the point where the request is handed to the library
GetOrders(user) ==
    /\ listing.state # "inflight"
    /\ Len(wire) < MaxCalls
    /\ listing' = [state |-> "inflight", body |-> <<>>, result |-> <<>>, reason |-> ""]
    /\ wire' = Append(wire, Request("GET", OrdersPath, user, <<>>))
    /\ UNCHANGED <<orders, args, calls, uuids, attempt>>

\* the listing arrives and the handler reports success with the array res
ListSuccess(user, res) ==
    /\ listing.state = "inflight"
    /\ listing' = [state |-> "resolved", body |-> res,
                   result |-> sortBy(Wrapped(user, res), "created_at"), reason |-> ""]
    /\ UNCHANGED <<orders, args, calls, wire, uuids, attempt>>

\* the handler reports the failure err
ListFailure(err) ==
    /\ listing.state = "inflight"
    /\ listing' = [state |-> "rejected", body |-> <<>>, result |-> <<>>, reason |-> err]
    /\ UNCHANGED <<orders, args, calls, wire, uuids, attempt>>

NextOrders ==
    \/ GetOrders(TheUser)
    \/ \E r \in handleResponse(Arrays(MaxEntries), <<>>) :
          r.kind = "success" /\ ListSuccess(TheUser, r.body)
    \/ \E r \in handleResponse(Arrays(MaxEntries), <<>>) :
          r.kind = "failure" /\ ListFailure(r.error)

SpecOrders == Init /\ [][NextOrders]_vars

----------------------------------------------------------------------------
(* Properties *)

LastCall == calls'[Len(calls')]
Original(c) == orders[calls[c].order]

\* C1: submit() on an instance whose executed flag is set, whether it was built
\* from a server record or was submitted successfully before, rejects with the
\* already-executed message and hands no request to the transport.
C1_ExecutedOrderRefused ==
    [][\A i \in DOMAIN orders :
          (orders[i].executed /\ Len(calls') = Len(calls) + 1 /\ LastCall.order = i)
          => /\ LastCall.state = "rejected"
             /\ LastCall.reason = AlreadyExecutedMessage
             /\ wire' = wire]_vars

C1_Witness ==
    /\ \E c \in DOMAIN calls : /\ calls[c].reason = AlreadyExecutedMessage
                               /\ Original(c).form # <<>>
    /\ \E c \in DOMAIN calls : /\ calls[c].reason = AlreadyExecutedMessage
                               /\ Original(c).form = <<>>

\* C2: whenever the handler reports success for a submission, the promise
\* resolves to a new executed instance whose accessors return the values of
\* the response (price and quantity as numbers), also for the response that
\* carries neither state nor cancel_url.
C2_SuccessResolvesToExecuted ==
    \A c \in DOMAIN calls :
        calls[c].reported.kind = "success"
        => /\ calls[c].state = "resolved"
           /\ LET o == orders[calls[c].result]
                  b == calls[c].reported.body
              IN  /\ isExecuted(o)
                  /\ getPrice(o) = ToNumber(b["price"])
                  /\ getQuantity(o) = ToNumber(b["quantity"])
                  /\ isCredit(o) <=> b["direction"] = Str(CREDIT)
                  /\ getTimeInForce(o) = b["time_in_force"]
                  /\ getReferenceID(o) = b["ref_id"]
                  /\ b = ExampleBody => getPrice(o) = Num(150) /\ getQuantity(o) = Num(300)

\* C3 as stated: once a submission has resolved, the submitted instance still
\* has executed = false and the form it was submitted with.
C3_OriginalUntouched ==
    \A c \in DOMAIN calls :
        calls[c].state = "resolved"
        => ~Original(c).executed /\ Original(c).form = calls[c].json

\* C3 as amended: once a submission has resolved, the result is another
\* instance, executed and without a form; the submitted instance keeps the
\* form it was submitted with and no server field, and its executed flag is set.
C3_OnlyFlagChanges ==
    \A c \in DOMAIN calls :
        calls[c].state = "resolved"
        => /\ calls[c].result # calls[c].order
           /\ orders[calls[c].result].executed
           /\ orders[calls[c].result].form = <<>>
           /\ Original(c).form = calls[c].json
           /\ Original(c).form # <<>>
           /\ Original(c).props = NoProps
           /\ Original(c).executed

C3_Witness ==
    \E c \in DOMAIN calls : calls[c].state = "resolved" /\ Original(c).form # <<>>

\* C4: when the handler reports a failure for a submission, the promise is
\* rejected with that very error, no instance changes or is created, and no
\* further request is sent.
C4_FailureLeavesNoTrace ==
    [][\A c \in DOMAIN calls :
          (calls[c].reported.kind = "none" /\ calls'[c].reported.kind = "failure")
          => /\ calls'[c].state = "rejected"
             /\ calls'[c].reason = calls'[c].reported.error
             /\ calls'[c].result = 0
             /\ orders' = orders
             /\ wire' = wire]_vars

C4_Witness ==
    \E c \in DOMAIN calls :
        /\ calls[c].reported.kind = "failure"
        /\ calls[c].state = "rejected"
        /\ ~Original(c).executed

\* the fields of the validation table that a parameter set violates
Violated(user, object) ==
    (IF user.isUser /\ user.authenticated THEN {} ELSE {"user"})
    \cup (IF object["side"] \in {Str(BUY), Str(SELL)} THEN {} ELSE {"side"})
    \cup (IF object["type"] \in {Str(MARKET), Str(LIMIT)}
             /\ ~(object["side"] = Str(BUY) /\ object["type"] = Str(MARKET))
          THEN {} ELSE {"type"})
    \cup (IF object["price"].t = "number" THEN {} ELSE {"price"})
    \cup (IF object["timeInForce"].t = "string"
             /\ toLowerCase(object["timeInForce"].s) \in {GFD, GTC, IOC, OPG}
          THEN {} ELSE {"timeInForce"})
    \cup (IF object["longLeg"].c = "OptionInstrument" THEN {} ELSE {"longLeg"})
    \cup (IF object["shortLeg"].c = "OptionInstrument" THEN {} ELSE {"shortLeg"})
    \cup (IF object["quantity"].t = "number" THEN {} ELSE {"quantity"})

\* C5: on the new-order path a valid parameter set yields an instance with
\* executed = false, an invalid one fails with an error naming a field it
\* violates, and nothing is handed to the transport.
C5_ValidationNamesField ==
    (attempt.made /\ IsNewOrder(attempt.object))
    => /\ wire = <<>>
       /\ IF Violated(attempt.user, attempt.object) = {}
          THEN ~attempt.outcome.threw /\ ~attempt.outcome.instance[1].executed
          ELSE /\ attempt.outcome.threw
               /\ attempt.outcome.error.names \in Violated(attempt.user, attempt.object)

MarketBuy(object) == object["side"] = Str(BUY) /\ object["type"] = Str(MARKET)

\* C6 as stated: construction with side = buy and type = market fails,
\* whatever the other fields of the object are.
C6_MarketBuyAlwaysFails ==
    (attempt.made /\ MarketBuy(attempt.object)) => attempt.outcome.threw

\* C6 as amended: construction with side = buy and type = market fails
\* exactly when the object carries neither state nor cancel_url; with either
\* of them it is taken for a server record and yields an executed instance.
C6_MarketBuyFailsOnNewOrderPath ==
    (attempt.made /\ MarketBuy(attempt.object))
    => IF attempt.object["state"] = Undefined /\ attempt.object["cancel_url"] = Undefined
       THEN attempt.outcome.threw
       ELSE ~attempt.outcome.threw /\ attempt.outcome.instance[1].executed

C6_Witness ==
    /\ attempt.made
    /\ MarketBuy(attempt.object)
    /\ Violated(attempt.user, attempt.object) = {"type"}
    /\ IsNewOrder(attempt.object)
    /\ attempt.outcome.threw
    /\ attempt.outcome.error.message
           = "Robinhood does not allow buy orders to be of type 'market'"

\* C7: for a new order that was constructed, the direction is debit exactly
\* for side = buy and credit exactly for side = sell, and isDebit(),
\* isCredit() and getDirection() say the same.
C7_AccessorsAgreeWithSide ==
    (attempt.made /\ ~attempt.outcome.threw /\ ~attempt.outcome.instance[1].executed)
    => LET o == attempt.outcome.instance[1]
           side == attempt.object["side"]
       IN  /\ o.form[1].direction = Str(DEBIT) <=> side = Str(BUY)
           /\ o.form[1].direction = Str(CREDIT) <=> side = Str(SELL)
           /\ isDebit(o) <=> side = Str(BUY)
           /\ isCredit(o) <=> side = Str(SELL)
           /\ getDirection(o) = o.form[1].direction

\* C8: a new order built with a reference identifier has exactly that one, in
\* its payload and from getReferenceID(); two new orders built without one
\* have different identifiers.
C8_ReferenceIdentifier ==
    \A i \in DOMAIN orders :
        (orders[i].form # <<>> /\ args[i].by = "caller")
        => /\ args[i].object["ref_id"] # Undefined
              => /\ orders[i].form[1].ref_id = args[i].object["ref_id"]
                 /\ getReferenceID(orders[i]) = args[i].object["ref_id"]
           /\ \A j \in DOMAIN orders :
                 (/\ j # i
                  /\ orders[j].form # <<>>
                  /\ args[j].by = "caller"
                  /\ args[i].object["ref_id"] = Undefined
                  /\ args[j].object["ref_id"] = Undefined)
                 => /\ orders[i].form[1].ref_id # orders[j].form[1].ref_id
                    /\ getReferenceID(orders[i]) # getReferenceID(orders[j])

WithState(res) == SelectSeq(res, LAMBDA o : o["state"] # Undefined)

\* C9: a listing that succeeded resolves to the entries that carry a state,
\* each as an executed instance, in ascending order of getDateCreated(); a
\* listing that failed yields no order.
C9_ListingSortedByDate ==
    /\ listing.state = "resolved"
       => /\ Len(listing.result) = Len(WithState(listing.body))
          /\ \A e \in DOMAIN WithState(listing.body) :
                \E k \in DOMAIN listing.result :
                    /\ listing.result[k].executed
                    /\ listing.result[k].props
                           = [f \in Whitelist |-> WithState(listing.body)[e][f]]
          /\ \A k \in DOMAIN listing.result : listing.result[k].executed
          /\ \A j, k \in DOMAIN listing.result :
                j < k => getDateCreated(listing.result[j]).ms
                             <= getDateCreated(listing.result[k]).ms
    /\ listing.state = "rejected" => listing.result = <<>>

\* C10 as stated: of one instance, at most one submission is outstanding at
\* any moment and at most one ever succeeds.
C10_AtMostOneSubmission ==
    \A i \in DOMAIN orders :
        Cardinality(Outstanding(i)) <= 1 /\ Cardinality(Succeeded(i)) <= 1

NeverOverlapped(i) == \A c \in DOMAIN calls : calls[c].order = i => ~calls[c].overlapped

\* C10 as amended: of an instance that was never submitted while an earlier
\* request of it was outstanding, at most one submission is outstanding at
\* any moment and at most one ever succeeds.
C10_SequentialSubmission ==
    \A i \in DOMAIN orders :
        NeverOverlapped(i)
        => Cardinality(Outstanding(i)) <= 1 /\ Cardinality(Succeeded(i)) <= 1

C10_Witness ==
    \E i \in DOMAIN orders :
        /\ NeverOverlapped(i)
        /\ Cardinality(Succeeded(i)) = 1
        /\ \E c \in DOMAIN calls :
              calls[c].order = i /\ calls[c].reported.kind = "failure"

====
